---- MODULE Spec2Model ----
(***************************************************************************)
(* Model of the notebooks of python-training.                              *)
(*                                                                         *)
(* The gallery notebook 850hPa_Temperature_Advection.ipynb is a linear     *)
(* script: it reads a grid and four fields, calls                          *)
(*   mpcalc.lat_lon_grid_deltas, mpcalc.advection, mpcalc.smooth_gaussian  *)
(* and converts units for plotting.  The three calculation functions are   *)
(* MetPy's (metpy.calc, the release that still takes dim_order=); the      *)
(* notebook holds only the calls, so the operators below give the          *)
(* behaviour of the function each call names, statement by statement.      *)
(*                                                                         *)
(* Numbers.  Floating-point values are modelled as exact rationals         *)
(* <<n, d>> in lowest terms with d > 0; rounding error is not modelled.    *)
(* Distances are in units of one tenth of a 15 degree arc of the sphere    *)
(* (about 166.8 km), with cos(latitude) tabulated in tenths.  The Gaussian *)
(* weights are small-integer ratios of the kernel scipy computes.          *)
(***************************************************************************)
EXTENDS Integers, Sequences, FiniteSets, TLC

\* Bounds of the model.
GridSize == 3
MaxVal == 2
MaxDeg2 == 6
MaxRuns == 2
MaxListed == 4
MaxDatasets == 13
MaxYears == 2
MaxLen == 5

(***************************************************************************)
(* Exact rational arithmetic (the model of float64 arithmetic).            *)
(***************************************************************************)
Abs(x) == IF x < 0 THEN -x ELSE x

RECURSIVE Gcd(_, _)
Gcd(a, b) == IF b = 0 THEN a ELSE Gcd(b, a % b)

RNorm(n, d) ==
    LET g == Gcd(Abs(n), Abs(d))
        s == IF d < 0 THEN -1 ELSE 1
    IN  <<(s * n) \div g, (s * d) \div g>>

R(k) == <<k, 1>>

RNeg(a) == <<-a[1], a[2]>>

RAdd(a, b) ==
    LET g == Gcd(a[2], b[2])
        l == (a[2] \div g) * b[2]
    IN  RNorm(a[1] * (l \div a[2]) + b[1] * (l \div b[2]), l)

RSub(a, b) == RAdd(a, RNeg(b))

RMul(a, b) ==
    LET g1 == Gcd(Abs(a[1]), b[2])
        g2 == Gcd(Abs(b[1]), a[2])
    IN  IF a[1] = 0 \/ b[1] = 0 THEN <<0, 1>>
        ELSE <<(a[1] \div g1) * (b[1] \div g2), (a[2] \div g2) * (b[2] \div g1)>>

RDiv(a, b) == RMul(a, RNorm(b[2], b[1]))

RLeq(a, b) == a[1] * b[2] <= b[1] * a[2]

RAbs(a) == <<Abs(a[1]), a[2]>>

(***************************************************************************)
(* Arrays: a 2-D array is a sequence of rows; its shape is <<rows, cols>>. *)
(***************************************************************************)
Shape(a) == <<Len(a), IF Len(a) = 0 THEN 0 ELSE Len(a[1])>>

Column(a, j) == [i \in 1..Len(a) |-> a[i][j]]

IsUniform(a) == \A i \in 1..Len(a) : \A j \in 1..Len(a[i]) : a[i][j] = a[1][1]

(***************************************************************************)
(* Unit tags (pint).  A Quantity's unit is its dimension <<K, m, s>>, the  *)
(* exponents of kelvin, metre and second; a plain array has the empty tag  *)
(* NoUnit.  Only SI base scales occur: a conversion is modelled by its     *)
(* dimension check, not by its change of magnitude.                        *)
(***************************************************************************)
NoUnit == <<>>
Kelvin == <<1, 0, 0>>
Metre == <<0, 1, 0>>
MetrePerSecond == <<0, 1, -1>>
KelvinPerSecond == <<1, 0, -1>>
Dimensionless == <<0, 0, 0>>

UnitMul(a, b) == <<a[1] + b[1], a[2] + b[2], a[3] + b[3]>>

UnitDiv(a, b) == <<a[1] - b[1], a[2] - b[2], a[3] - b[3]>>

\* Quantity.to(dest) succeeds exactly when the dimensions agree.
Convertible(a, dest) == a # NoUnit /\ a = dest

(***************************************************************************)
(* pyproj.Geod(ellps='sphere').inv for two points of a meshgrid, which     *)
(* share a longitude or a latitude.  Latitudes and longitude differences   *)
(* are multiples of 15 degrees.  dist is unsigned; az is the forward       *)
(* azimuth in degrees: 0 north, 180 south, just under 90 east, just above  *)
(* -90 west (northern hemisphere).                                         *)
(***************************************************************************)
Cos10(phi) ==
    CASE Abs(phi) = 0 -> 10
      [] Abs(phi) = 15 -> 10
      [] Abs(phi) = 30 -> 9
      [] Abs(phi) = 45 -> 7
      [] Abs(phi) = 60 -> 5
      [] Abs(phi) = 75 -> 3
      [] OTHER -> 0

GeodInv(lon1, lat1, lon2, lat2) ==
    IF lon1 = lon2
    THEN [az |-> IF lat2 >= lat1 THEN 0 ELSE 180,
          dist |-> 10 * (Abs(lat2 - lat1) \div 15)]
    ELSE [az |-> IF lon2 > lon1 THEN 89 ELSE -89,
          dist |-> Cos10(lat1) * (Abs(lon2 - lon1) \div 15)]

\* (mutant: the sign correction left out, the distance returned unsigned)
UnsignedDy(g) == g.dist

\* dy[(forward_az < -90.) | (forward_az > 90.)] *= -1
SignedDy(g) == IF g.az < -90 \/ g.az > 90 THEN -g.dist ELSE g.dist

\* dx[(forward_az < 0.) | (forward_az > 180.)] *= -1
SignedDx(g) == IF g.az < 0 \/ g.az > 180 THEN -g.dist ELSE g.dist

(***************************************************************************)
(* mpcalc.lat_lon_grid_deltas(longitude, latitude): 1-D inputs are made a  *)
(* mesh grid; dy is the signed distance between rows i and i+1 (shape      *)
(* (M-1) x N), dx between columns j and j+1 (shape M x (N-1)); both carry  *)
(* units.meter.  Nothing is validated: no ordering check, no exception.    *)
(***************************************************************************)
lat_lon_grid_deltas(longitude, latitude) ==
    LET M == Len(latitude)
        N == Len(longitude)
    IN  [dx |-> [val |-> [i \in 1..M |-> [j \in 1..(N - 1) |->
                     R(SignedDx(GeodInv(longitude[j], latitude[i],
                                        longitude[j + 1], latitude[i])))]],
                 unit |-> Metre],
         dy |-> [val |-> [i \in 1..(M - 1) |-> [j \in 1..N |->
                     R(SignedDy(GeodInv(longitude[j], latitude[i],
                                        longitude[j], latitude[i + 1])))]],
                 unit |-> Metre]]

(***************************************************************************)
(* metpy.calc.first_derivative along one line of the array: f has n >= 3   *)
(* points and d the n-1 spacings between them.  Three-point differences    *)
(* for uneven spacing: centered inside, one-sided (three-point forward or  *)
(* backward) at the two ends.                                              *)
(***************************************************************************)
\* (mutant: the last term of the forward difference added, not subtracted)
DerivLeftWrongSign(f, d) ==
    LET d0 == d[1]
        d1 == d[2]
        combined_delta == RAdd(d0, d1)
        big_delta == RAdd(combined_delta, d0)
    IN  RAdd(RAdd(RMul(RNeg(RDiv(big_delta, RMul(combined_delta, d0))), f[1]),
                  RMul(RDiv(combined_delta, RMul(d0, d1)), f[2])),
             RMul(RDiv(d0, RMul(combined_delta, d1)), f[3]))

DerivLeft(f, d) ==
    LET d0 == d[1]
        d1 == d[2]
        combined_delta == RAdd(d0, d1)
        big_delta == RAdd(combined_delta, d0)
    IN  RSub(RAdd(RMul(RNeg(RDiv(big_delta, RMul(combined_delta, d0))), f[1]),
                  RMul(RDiv(combined_delta, RMul(d0, d1)), f[2])),
             RMul(RDiv(d0, RMul(combined_delta, d1)), f[3]))

DerivCenter(f, d, k) ==
    LET d0 == d[k - 1]
        d1 == d[k]
        combined_delta == RAdd(d0, d1)
        delta_diff == RSub(d1, d0)
    IN  RAdd(RAdd(RMul(RNeg(RDiv(d1, RMul(combined_delta, d0))), f[k - 1]),
                  RMul(RDiv(delta_diff, RMul(d0, d1)), f[k])),
             RMul(RDiv(d0, RMul(combined_delta, d1)), f[k + 1]))

\* (mutant: the last point differenced with its neighbour alone, first order)
DerivRightTwoPoint(f, d) ==
    LET n == Len(f)
    IN  RDiv(RSub(f[n], f[n - 1]), d[n - 1])

DerivRight(f, d) ==
    LET n == Len(f)
        d0 == d[n - 2]
        d1 == d[n - 1]
        combined_delta == RAdd(d0, d1)
        big_delta == RAdd(combined_delta, d1)
    IN  RAdd(RSub(RMul(RDiv(d1, RMul(combined_delta, d0)), f[n - 2]),
                  RMul(RDiv(combined_delta, RMul(d0, d1)), f[n - 1])),
             RMul(RDiv(big_delta, RMul(combined_delta, d1)), f[n]))

first_derivative_line(f, d) ==
    [k \in 1..Len(f) |->
        IF k = 1 THEN DerivLeft(f, d)
        ELSE IF k = Len(f) THEN DerivRight(f, d)
        ELSE DerivCenter(f, d, k)]

\* axis 1 (x): along each row, with that row's dx.
first_derivative_x(f, delta) ==
    [i \in 1..Len(f) |-> first_derivative_line(f[i], delta[i])]

\* axis 0 (y): along each column, with that column's dy.
first_derivative_y(f, delta) ==
    LET cols == [j \in 1..Len(f[1]) |->
                    first_derivative_line(Column(f, j), Column(delta, j))]
    IN  [i \in 1..Len(f) |-> [j \in 1..Len(f[1]) |-> cols[j][i]]]

(***************************************************************************)
(* Results of a call: a returned value, or the exception it raised.        *)
(***************************************************************************)
Unset == [val |-> <<>>, unit |-> NoUnit]

Return(x) == [exc |-> "none", value |-> x]

Raise(e) == [exc |-> e, value |-> Unset]

(***************************************************************************)
(* numpy broadcasting of a 2-D array against a 2-D array: two axes agree   *)
(* when their lengths are equal or one of them is 1.                       *)
(***************************************************************************)
\* (mutant: equal shapes demanded, a length-1 axis not stretched)
SameShape(sa, sb) == sa = sb

Broadcastable(sa, sb) ==
    \A k \in 1..2 : sa[k] = sb[k] \/ sa[k] = 1 \/ sb[k] = 1

BroadcastAt(a, i, j) ==
    a[IF Len(a) = 1 THEN 1 ELSE i][IF Len(a[1]) = 1 THEN 1 ELSE j]

(***************************************************************************)
(* mpcalc.advection(scalar, [u, v], (dx, dy), dim_order='yx')              *)
(*   wind = _stack(wind)             -- v is converted to u's unit, the    *)
(*                                      two are concatenated on a new axis *)
(*   wind = wind[::-1]               -- [v, u], to line up with [y, x]     *)
(*   grad = _stack(gradient(scalar, deltas=deltas[::-1]))  -- [d/dy, d/dx] *)
(*   return (-grad * wind).sum(axis=0)                                     *)
(* The unit of the result is propagated, never checked against a          *)
(* dimension: scalar unit / delta unit * wind unit.                        *)
(***************************************************************************)
\* (mutant: the x term not multiplied by u)
AdvectionValueDropsU(scalar, u, v, dx, dy) ==
    LET dTdy == first_derivative_y(scalar, dy)
        dTdx == first_derivative_x(scalar, dx)
    IN  [i \in 1..Len(scalar) |-> [j \in 1..Len(scalar[1]) |->
            RAdd(RMul(RNeg(dTdy[i][j]), BroadcastAt(v, i, j)),
                 RNeg(dTdx[i][j]))]]

\* (mutant: the wind not reversed, u paired with d/dy and v with d/dx)
AdvectionValueNotReversed(scalar, u, v, dx, dy) ==
    LET dTdy == first_derivative_y(scalar, dy)
        dTdx == first_derivative_x(scalar, dx)
    IN  [i \in 1..Len(scalar) |-> [j \in 1..Len(scalar[1]) |->
            RAdd(RMul(RNeg(dTdy[i][j]), BroadcastAt(u, i, j)),
                 RMul(RNeg(dTdx[i][j]), BroadcastAt(v, i, j)))]]

AdvectionValue(scalar, u, v, dx, dy) ==
    LET dTdy == first_derivative_y(scalar, dy)
        dTdx == first_derivative_x(scalar, dx)
    IN  [i \in 1..Len(scalar) |-> [j \in 1..Len(scalar[1]) |->
            RAdd(RMul(RNeg(dTdy[i][j]), BroadcastAt(v, i, j)),
                 RMul(RNeg(dTdx[i][j]), BroadcastAt(u, i, j)))]]

\* (mutant: the gradient's unit taken without the division by the spacing's)
AdvectionUnitNoDelta(scalar_unit, delta_unit, wind_unit) == UnitMul(scalar_unit, wind_unit)

AdvectionUnit(scalar_unit, delta_unit, wind_unit) ==
    UnitMul(UnitDiv(scalar_unit, delta_unit), wind_unit)

advection(scalar, u, v, dx, dy) ==
    IF ~Convertible(v.unit, u.unit)
    THEN Raise("DimensionalityError")
    ELSE IF Shape(u.val) # Shape(v.val)
    THEN Raise("ValueError")
    ELSE IF ~Convertible(dx.unit, dy.unit)
    THEN Raise("DimensionalityError")
    ELSE IF ~Broadcastable(Shape(scalar.val), Shape(u.val))
    THEN Raise("ValueError")
    ELSE Return([val |-> AdvectionValue(scalar.val, u.val, v.val, dx.val, dy.val),
                 unit |-> AdvectionUnit(scalar.unit, dy.unit, u.unit)])

(***************************************************************************)
(* mpcalc.smooth_gaussian(scalar_grid, n)                                  *)
(*   n = int(round(n)); if n < 2: n = 2; sgma = n / (2 * np.pi)            *)
(*   res = gaussian_filter(scalar_grid, [sgma, sgma],                      *)
(*                         truncate=2 * np.sqrt(2))                        *)
(*   if hasattr(scalar_grid, 'units'): res = res * scalar_grid.units       *)
(* The degree is given in halves (n2 = 2 n) so that rounding is modelled.  *)
(***************************************************************************)
\* Python's round: to the nearest integer, ties to the even one.
RoundHalves(n2) ==
    IF n2 % 2 = 0 THEN n2 \div 2
    ELSE IF ((n2 - 1) \div 2) % 2 = 0 THEN (n2 - 1) \div 2
    ELSE (n2 + 1) \div 2

\* (mutant: the degree used as given, not raised to 2)
SmoothDegreeAsGiven(n2) == RoundHalves(n2)

SmoothDegree(n2) == IF RoundHalves(n2) < 2 THEN 2 ELSE RoundHalves(n2)

\* scipy's normalised kernel exp(-x^2 / (2 sgma^2)), x = -lw..lw with
\* lw = int(truncate * sgma + 0.5), as integer weights (their sum is the
\* divisor): n = 2: 0.00709, 0.98582; n = 3: 0.0912, 0.8176;
\* n = 4: 0.0045, 0.1824, 0.6262.  A degree below 2 never reaches here; the
\* kernel of sigma <= 0.16 is the single weight 1.
GaussianKernel(n) ==
    CASE n = 2 -> <<1, 139, 1>>
      [] n = 3 -> <<1, 9, 1>>
      [] n = 4 -> <<2, 81, 278, 81, 2>>
      [] OTHER -> <<1>>

RECURSIVE SumInts(_)
SumInts(w) == IF w = <<>> THEN 0 ELSE Head(w) + SumInts(Tail(w))

\* (mutant: mode='mirror', (d c b | a b c d | c b a), the edge not repeated)
RECURSIVE Mirror(_, _)
Mirror(p, n) ==
    IF p < 1 THEN Mirror(2 - p, n)
    ELSE IF p > n THEN Mirror(2 * n - p, n)
    ELSE p

\* mode='reflect': (d c b a | a b c d | d c b a), 1-based.
RECURSIVE Reflect(_, _)
Reflect(p, n) ==
    IF p < 1 THEN Reflect(1 - p, n)
    ELSE IF p > n THEN Reflect(2 * n + 1 - p, n)
    ELSE p

RECURSIVE WeightedSum(_, _, _, _)
WeightedSum(line, w, k, t) ==
    IF t > Len(w) THEN <<0, 1>>
    ELSE RAdd(RMul(R(w[t]), line[Reflect(k + t - 1 - ((Len(w) - 1) \div 2), Len(line))]),
              WeightedSum(line, w, k, t + 1))

correlate1d(line, w) ==
    [k \in 1..Len(line) |-> RDiv(WeightedSum(line, w, k, 1), R(SumInts(w)))]

\* gaussian_filter: one pass of correlate1d per axis, axis 0 first.
gaussian_filter(input, w) ==
    LET cols == [j \in 1..Len(input[1]) |-> correlate1d(Column(input, j), w)]
        pass0 == [i \in 1..Len(input) |-> [j \in 1..Len(input[1]) |-> cols[j][i]]]
    IN  [i \in 1..Len(pass0) |-> correlate1d(pass0[i], w)]

\* (mutant: the units not put back on the filtered array)
smooth_gaussian_strips_units(scalar_grid, n2) ==
    [val |-> gaussian_filter(scalar_grid.val, GaussianKernel(SmoothDegree(n2))),
     unit |-> NoUnit]

smooth_gaussian(scalar_grid, n2) ==
    [val |-> gaussian_filter(scalar_grid.val, GaussianKernel(SmoothDegree(n2))),
     unit |-> scalar_grid.unit]

(***************************************************************************)
(* np.meshgrid(x, y): two arrays of shape Len(y) x Len(x), X repeating x    *)
(* along the rows and Y repeating y along the columns.  With copy=True     *)
(* (the default, which the notebook takes) each result owns its memory;    *)
(* base names the array a write through the result lands in.               *)
(***************************************************************************)
\* (mutant: copy=False, the results being views of x and y)
meshgrid_views(x, y) ==
    [X |-> [base |-> "x", val |-> [i \in 1..Len(y) |-> [j \in 1..Len(x) |-> x[j]]]],
     Y |-> [base |-> "y", val |-> [i \in 1..Len(y) |-> [j \in 1..Len(x) |-> y[i]]]]]

meshgrid(x, y) ==
    [X |-> [base |-> "own", val |-> [i \in 1..Len(y) |-> [j \in 1..Len(x) |-> x[j]]]],
     Y |-> [base |-> "own", val |-> [i \in 1..Len(y) |-> [j \in 1..Len(x) |-> y[i]]]]]

\* a[a > 180] = a[a > 180] - 360, element by element
\* (mutant: 180 itself shifted as well)
GridShiftValueFrom180(x) == IF x >= 180 THEN x - 360 ELSE x

GridShiftValue(x) == IF x > 180 THEN x - 360 ELSE x

(***************************************************************************)
(* Quantity.to(units('degC')) of a temperature in kelvin: the magnitude    *)
(* less 273.15; the dimension stays that of a temperature.                 *)
(***************************************************************************)
to_degC(q) ==
    [val |-> [i \in 1..Len(q.val) |-> [j \in 1..Len(q.val[1]) |->
                 RSub(q.val[i][j], <<5463, 20>>)]],
     unit |-> q.unit]

(***************************************************************************)
(* The inputs the data source can deliver: coordinate sequences of         *)
(* GridSize distinct values each (in any order), GridSize x GridSize       *)
(* fields with values up to MaxVal, wind fields of the grid's shape or of  *)
(* another one, unit strings of several dimensions, and the smoothing     *)
(* degree in halves up to MaxDeg2.                                         *)
(***************************************************************************)
LatValues == {15 * k : k \in 1..GridSize}

LonValues == {150 + 15 * k : k \in 1..GridSize}

Perms(S) ==
    {q \in [1..Cardinality(S) -> S] : \A a, b \in 1..Cardinality(S) : a # b => q[a] # q[b]}

IsMonotonic(q) ==
    \/ \A k \in 1..(Len(q) - 1) : q[k] < q[k + 1]
    \/ \A k \in 1..(Len(q) - 1) : q[k] > q[k + 1]

\* GFS delivers latitude north to south and longitude west to east, in
\* degrees east from 0 to 360: the values here lie on both sides of 180.
GfsLat == [k \in 1..GridSize |-> 15 * (GridSize + 1 - k)]

GfsLon == [k \in 1..GridSize |-> 150 + 15 * k]

AscLat == [k \in 1..GridSize |-> 15 * k]

ConstField(m, n, c) == [i \in 1..m |-> [j \in 1..n |-> R(c)]]

SpikeField(p, q, c) ==
    [i \in 1..GridSize |-> [j \in 1..GridSize |-> IF i = p /\ j = q THEN R(c) ELSE R(0)]]

RowRamp(c) == [i \in 1..GridSize |-> [j \in 1..GridSize |-> R(c * i)]]

ColRamp(c) == [i \in 1..GridSize |-> [j \in 1..GridSize |-> R(c * j)]]

\* T(x, y) = x: the east-west position of each grid point, the running sum
\* of its row's dx.
RECURSIVE XAt(_, _)
XAt(dxrow, j) == IF j = 1 THEN <<0, 1>> ELSE RAdd(XAt(dxrow, j - 1), dxrow[j - 1])

XField(longitude, latitude) ==
    LET d == lat_lon_grid_deltas(longitude, latitude).dx.val
    IN  [i \in 1..Len(latitude) |-> [j \in 1..Len(longitude) |-> XAt(d[i], j)]]

UniformFields == {ConstField(GridSize, GridSize, c) : c \in 0..MaxVal}

ScalarFields ==
    UniformFields
    \cup {SpikeField(p, q, c) : p \in 1..GridSize, q \in 1..GridSize, c \in 1..MaxVal}
    \cup {RowRamp(c) : c \in 1..MaxVal} \cup {ColRamp(c) : c \in 1..MaxVal}

WindValues == -1..1

UniformWinds ==
    {[u |-> ConstField(GridSize, GridSize, a), v |-> ConstField(GridSize, GridSize, b)] :
        a \in WindValues, b \in WindValues}

ShearWind == [u |-> RowRamp(1), v |-> ColRamp(1)]

\* Wind fields whose shape is not the grid's.
OtherShapes ==
    {<<GridSize + 1, GridSize + 1>>, <<1, GridSize>>, <<GridSize, 1>>, <<1, 1>>}

Quantity(v, un) == [val |-> v, unit |-> un]

NominalTemp ==
    Quantity([i \in 1..GridSize |-> [j \in 1..GridSize |-> R(i + j * j)]], Kelvin)

NominalHght == [i \in 1..GridSize |-> [j \in 1..GridSize |-> R(i * j)]]

Input(la, lo, t, uu, vv, h, n) ==
    [lat |-> la, lon |-> lo, temp |-> t, u |-> uu, v |-> vv, hght |-> h, n2 |-> n]

\* every ordering of the coordinates, with T = x, a ramp and a uniform field
GridInputs ==
    {Input(la, lo,
           Quantity(CASE t = "x" -> XField(lo, la)
                      [] t = "ramp" -> ColRamp(1)
                      [] OTHER -> ConstField(GridSize, GridSize, MaxVal), Kelvin),
           Quantity(ConstField(GridSize, GridSize, 1), MetrePerSecond),
           Quantity(ConstField(GridSize, GridSize, 0), MetrePerSecond),
           NominalHght, 4) :
        la \in Perms(LatValues), lo \in Perms(LonValues), t \in {"x", "ramp", "const"}}

\* every scalar field under every wind, on the grid as delivered and on the
\* grid with ascending latitude
FieldInputs ==
    {Input(la, GfsLon, Quantity(t, Kelvin),
           Quantity(w.u, MetrePerSecond), Quantity(w.v, MetrePerSecond),
           NominalHght, 4) :
        la \in {GfsLat, AscLat}, t \in ScalarFields, w \in UniformWinds \cup {ShearWind}}

\* wind fields of another shape than the scalar field's
ShapeInputs ==
    {Input(GfsLat, GfsLon, NominalTemp,
           Quantity(ConstField(su[1], su[2], 1), MetrePerSecond),
           Quantity(ConstField(sv[1], sv[2], 1), MetrePerSecond),
           NominalHght, 4) :
        su \in OtherShapes, sv \in OtherShapes \cup {<<GridSize, GridSize>>}}

\* unit strings of other dimensions than kelvin and metre / second
UnitInputs ==
    {Input(GfsLat, GfsLon, Quantity(NominalTemp.val, ut),
           Quantity(ConstField(GridSize, GridSize, 1), uu),
           Quantity(ConstField(GridSize, GridSize, 1), uv),
           NominalHght, 4) :
        ut \in {Kelvin, Dimensionless},
        uu \in {MetrePerSecond, Kelvin, Metre},
        uv \in {MetrePerSecond, Kelvin, Dimensionless}}

\* every height field under every smoothing degree
SmoothInputs ==
    {Input(GfsLat, GfsLon, NominalTemp,
           Quantity(ConstField(GridSize, GridSize, 1), MetrePerSecond),
           Quantity(ConstField(GridSize, GridSize, 1), MetrePerSecond),
           h, n) :
        h \in ScalarFields, n \in 0..MaxDeg2}

Inputs == GridInputs \cup FieldInputs \cup ShapeInputs \cup UnitInputs \cup SmoothInputs

(***************************************************************************)
(* The notebook: the statements of the calculation cell and the unit       *)
(* conversions of the plotting cell, in order.  pc names the statement to  *)
(* run next; a statement that raises leaves err set and pc on itself, and  *)
(* nothing runs after it.                                                  *)
(***************************************************************************)
\* pc and err belong to whichever notebook is running.
VARIABLES pc, err

\* 850hPa_Temperature_Advection.ipynb
VARIABLES lat_var, lon_var, lat, lon, temp_850, u_wind_850, v_wind_850,
          hght_850, n2, lon_2d, lat_2d, dx, dy, adv, Z_850, cs2,
          run, previous

\* Whetting_Your_Appetite_for_Python.ipynb
VARIABLES listing, cat, dataset, gini_file

\* Satellite Animations.ipynb
VARIABLES datasets, visit, ds, dat, timestamp, im, text_time, artists, anim

\* the "Times and Dates" notebook: the arguments and locals of metar(), and
\* the names of the tide cell
VARIABLES icao, starttime, endtime, var, st, et, url
VARIABLES high_tide, lunar_day, tide_duration, next_low_tide, next_high_tide,
          tide_length

\* find_time_var(var, time_basename) of the gallery notebook: its arguments,
\* its loop and what it returns
VARIABLES coordinates, name, time_basename, coord_names, position, coord_name, returned,
          message

gallery == <<lat_var, lon_var, lat, lon, temp_850, u_wind_850, v_wind_850,
             hght_850, n2, lon_2d, lat_2d, dx, dy, adv, Z_850, cs2,
             run, previous>>

whetting == <<listing, cat, dataset, gini_file>>

animation == <<datasets, visit, ds, dat, timestamp, im, text_time, artists, anim>>

times == <<icao, starttime, endtime, var, st, et, url,
           high_tide, lunar_day, tide_duration, next_low_tide, next_high_tide,
           tide_length>>

helper == <<coordinates, name, time_basename, coord_names, position, coord_name, returned,
            message>>

\* the variables of the other notebooks (and of the helper function, which
\* has a run of its own), as seen from the cells of the gallery notebook
elsewhere == <<whetting, animation, times, helper>>

notWhetting == <<gallery, animation, times, helper>>

notAnimation == <<gallery, whetting, times, helper>>

metarVars == <<icao, starttime, endtime, var, st, et, url>>

tideVars == <<high_tide, lunar_day, tide_duration, next_low_tide, next_high_tide,
              tide_length>>

notTimes == <<gallery, whetting, animation, helper>>

notHelper == <<gallery, whetting, animation, times>>

vars == <<pc, err, gallery, elsewhere>>

\* what the data cell binds and the calculation and plotting cells only read;
\* run counts the executions of the calculation cell and previous holds what
\* the execution before bound (both are touched only when the cell is re-run)
inputs == <<lat_var, lon_var, lat, temp_850, u_wind_850, v_wind_850, hght_850, n2,
            run, previous, elsewhere>>

NoArray == [base |-> "own", val |-> <<>>]

NoResults == [dx |-> Unset, dy |-> Unset, adv |-> Unset, Z_850 |-> Unset]

\* A notebook that is not the one running holds nothing.
WhettingIdle ==
    listing = <<>> /\ cat = <<>> /\ dataset = 0 /\ gini_file = 0

GalleryStart(inp) ==
        /\ lat_var = inp.lat
        /\ lon_var = inp.lon
        /\ lat = inp.lat
        /\ lon = inp.lon
        /\ temp_850 = inp.temp
        /\ u_wind_850 = inp.u
        /\ v_wind_850 = inp.v
        /\ hght_850 = Quantity(inp.hght, NoUnit)
        /\ n2 = inp.n2
        /\ pc = "meshgrid"
        /\ lon_2d = NoArray
        /\ lat_2d = NoArray
        /\ dx = Unset
        /\ dy = Unset
        /\ adv = Unset
        /\ Z_850 = Unset
        /\ cs2 = Unset
        /\ err = "none"
        /\ run = 1
        /\ previous = NoResults

\* a dataset handle (closed or opened by remote_access), an artist of the
\* figure, the animation: each remembers the dataset (its time) it came from
NoDataset == [of |-> 0, opened |-> FALSE]

NoArtist == [artist |-> "none", of |-> 0]

NoAnimation == [built |-> FALSE, frames |-> <<>>]

AnimationIdle ==
    /\ datasets = <<>> /\ visit = <<>>
    /\ ds = NoDataset /\ dat = 0 /\ timestamp = 0
    /\ im = NoArtist /\ text_time = NoArtist
    /\ artists = <<>> /\ anim = NoAnimation

\* a datetime and a timedelta not bound yet
NoDatetime == [year |-> 0, month |-> 0, day |-> 0, hour |-> 0, minute |-> 0, second |-> 0]

NoTimedelta == [days |-> 0, seconds |-> 0]

MetarIdle ==
    /\ icao = "" /\ var = ""
    /\ starttime = NoDatetime /\ endtime = NoDatetime
    /\ st = <<>> /\ et = <<>> /\ url = <<>>

TideIdle ==
    /\ high_tide = NoDatetime /\ lunar_day = NoTimedelta
    /\ tide_duration = NoTimedelta
    /\ next_low_tide = NoDatetime /\ next_high_tide = NoDatetime
    /\ tide_length = NoTimedelta

TimesIdle == MetarIdle /\ TideIdle

HelperIdle ==
    /\ coordinates = <<>> /\ name = <<>> /\ time_basename = <<>> /\ coord_names = <<>>
    /\ position = 0 /\ coord_name = <<>> /\ returned = <<>> /\ message = <<>>

ElsewhereIdle == WhettingIdle /\ AnimationIdle /\ TimesIdle /\ HelperIdle

Init == ElsewhereIdle /\ \E inp \in Inputs : GalleryStart(inp)

Running(stmt) == pc = stmt /\ err = "none"

\* lon_2d, lat_2d = np.meshgrid(lon, lat)
Meshgrid ==
    /\ Running("meshgrid")
    /\ lon_2d' = meshgrid(lon, lat).X
    /\ lat_2d' = meshgrid(lon, lat).Y
    /\ pc' = "gridshift"
    /\ UNCHANGED <<inputs, lon, dx, dy, adv, Z_850, cs2, err>>

\* lon_2d[lon_2d > 180] = lon_2d[lon_2d > 180] - 360: written in place, into
\* the memory lon_2d is based on.
GridShift ==
    /\ Running("gridshift")
    /\ lon_2d' = [lon_2d EXCEPT !.val =
                     [i \in 1..Len(lon_2d.val) |-> [j \in 1..Len(lon_2d.val[1]) |->
                         GridShiftValue(lon_2d.val[i][j])]]]
    /\ lon' = IF lon_2d.base = "x"
              THEN [j \in 1..Len(lon) |-> GridShiftValue(lon[j])]
              ELSE lon
    /\ pc' = "lat_lon_grid_deltas"
    /\ UNCHANGED <<inputs, lat_2d, dx, dy, adv, Z_850, cs2, err>>

\* (mutant: the distances kept between calls, and the sign correction applied
\* to the kept array again at each call)
GridDeltasFlipsKeptArray ==
    /\ Running("lat_lon_grid_deltas")
    /\ dx' = lat_lon_grid_deltas(lon_var, lat_var).dx
    /\ dy' = IF dy = Unset
             THEN lat_lon_grid_deltas(lon_var, lat_var).dy
             ELSE [val |-> [i \in 1..Len(dy.val) |-> [j \in 1..Len(dy.val[1]) |->
                              IF lat_var[i + 1] < lat_var[i]
                              THEN RNeg(dy.val[i][j]) ELSE dy.val[i][j]]],
                   unit |-> dy.unit]
    /\ pc' = "advection"
    /\ UNCHANGED <<inputs, lon, lon_2d, lat_2d, adv, Z_850, cs2, err>>

\* dx, dy = mpcalc.lat_lon_grid_deltas(lon_var, lat_var)
GridDeltas ==
    /\ Running("lat_lon_grid_deltas")
    /\ dx' = lat_lon_grid_deltas(lon_var, lat_var).dx
    /\ dy' = lat_lon_grid_deltas(lon_var, lat_var).dy
    /\ pc' = "advection"
    /\ UNCHANGED <<inputs, lon, lon_2d, lat_2d, adv, Z_850, cs2, err>>

\* adv = mpcalc.advection(temp_850, [u_wind_850, v_wind_850], (dx, dy), dim_order='yx')
AdvectionCall == advection(temp_850, u_wind_850, v_wind_850, dx, dy)

AdvectionReturns ==
    /\ Running("advection")
    /\ AdvectionCall.exc = "none"
    /\ adv' = AdvectionCall.value
    /\ pc' = "smooth_hght"
    /\ UNCHANGED <<inputs, lon, lon_2d, lat_2d, dx, dy, Z_850, cs2, err>>

\* (mutant: the exception recorded but the run carried on with an empty result)
AdvectionRaisesAndGoesOn ==
    /\ Running("advection")
    /\ AdvectionCall.exc # "none"
    /\ err' = AdvectionCall.exc
    /\ pc' = "smooth_hght"
    /\ UNCHANGED <<inputs, lon, lon_2d, lat_2d, dx, dy, adv, Z_850, cs2>>

AdvectionRaises ==
    /\ Running("advection")
    /\ AdvectionCall.exc # "none"
    /\ err' = AdvectionCall.exc
    /\ UNCHANGED <<inputs, lon, lon_2d, lat_2d, pc, dx, dy, adv, Z_850, cs2>>

\* Z_850 = mpcalc.smooth_gaussian(hght_850, 2)
SmoothHght ==
    /\ Running("smooth_hght")
    /\ Z_850' = smooth_gaussian(hght_850, n2)
    /\ pc' = "smooth_adv"
    /\ UNCHANGED <<inputs, lon, lon_2d, lat_2d, dx, dy, adv, cs2, err>>

\* adv = mpcalc.smooth_gaussian(adv, 2)
SmoothAdv ==
    /\ Running("smooth_adv")
    /\ adv' = smooth_gaussian(adv, n2)
    /\ pc' = "contour_temp"
    /\ UNCHANGED <<inputs, lon, lon_2d, lat_2d, dx, dy, Z_850, cs2, err>>

\* (mutant: the temperature smoothed like the other two fields before contouring)
ContourTempSmoothed ==
    /\ Running("contour_temp")
    /\ Convertible(temp_850.unit, Kelvin)
    /\ cs2' = to_degC(smooth_gaussian(temp_850, n2))
    /\ pc' = "contourf_adv"
    /\ UNCHANGED <<inputs, lon, lon_2d, lat_2d, dx, dy, adv, Z_850, err>>

\* cs2 = ax.contour(lon_2d, lat_2d, temp_850.to(units('degC')), ...)
ContourTempReturns ==
    /\ Running("contour_temp")
    /\ Convertible(temp_850.unit, Kelvin)
    /\ cs2' = to_degC(temp_850)
    /\ pc' = "contourf_adv"
    /\ UNCHANGED <<inputs, lon, lon_2d, lat_2d, dx, dy, adv, Z_850, err>>

ContourTempRaises ==
    /\ Running("contour_temp")
    /\ ~Convertible(temp_850.unit, Kelvin)
    /\ err' = "DimensionalityError"
    /\ UNCHANGED <<inputs, lon, lon_2d, lat_2d, pc, dx, dy, adv, Z_850, cs2>>

\* cf = ax.contourf(lon_2d, lat_2d, 3*adv.to(units('delta_degC/hour')), ...)
ContourfAdvReturns ==
    /\ Running("contourf_adv")
    /\ Convertible(adv.unit, KelvinPerSecond)
    /\ pc' = "done"
    /\ UNCHANGED <<inputs, lon, lon_2d, lat_2d, dx, dy, adv, Z_850, cs2, err>>

ContourfAdvRaises ==
    /\ Running("contourf_adv")
    /\ ~Convertible(adv.unit, KelvinPerSecond)
    /\ err' = "DimensionalityError"
    /\ UNCHANGED <<inputs, lon, lon_2d, lat_2d, pc, dx, dy, adv, Z_850, cs2>>

Next ==
    \/ Meshgrid
    \/ GridShift
    \/ GridDeltas
    \/ AdvectionReturns
    \/ AdvectionRaises
    \/ SmoothHght
    \/ SmoothAdv
    \/ ContourTempReturns
    \/ ContourTempRaises
    \/ ContourfAdvReturns
    \/ ContourfAdvRaises

Spec == Init /\ [][Next]_vars

(***************************************************************************)
(* The calculation cell run again (a notebook cell can be executed any     *)
(* number of times): once it has ended, by its last statement or by an     *)
(* exception, it starts over at its first statement with every name still  *)
(* bound to what the run before left.  previous records what that run      *)
(* bound.                                                                  *)
(***************************************************************************)
CellEnded ==
    \/ pc \in {"contour_temp", "contourf_adv", "done"}
    \/ pc = "advection" /\ err # "none"

RerunCell ==
    /\ CellEnded
    /\ run < MaxRuns
    /\ run' = run + 1
    /\ previous' = [dx |-> dx, dy |-> dy, adv |-> adv, Z_850 |-> Z_850]
    /\ pc' = "lat_lon_grid_deltas"
    /\ err' = "none"
    /\ UNCHANGED <<lat_var, lon_var, lat, lon, temp_850, u_wind_850, v_wind_850,
                   hght_850, n2, lon_2d, lat_2d, dx, dy, adv, Z_850, cs2, elsewhere>>

\* the grid as delivered, under every field, wind, shape, unit and degree
RerunInputs == FieldInputs \cup ShapeInputs \cup UnitInputs \cup SmoothInputs

InitRerun == ElsewhereIdle /\ \E inp \in RerunInputs : GalleryStart(inp)

NextRerun == Next \/ RerunCell

SpecRerun == InitRerun /\ [][NextRerun]_vars

(***************************************************************************)
(* Whetting_Your_Appetite_for_Python.ipynb, the satellite-image cell:      *)
(*   cat = TDSCatalog('.../satellite/WV/WEST-CONUS_4km/current/catalog.xml')*)
(*   dataset = cat.datasets[list(cat.datasets)[0]]                         *)
(*   gini_file = GiniFile(urlopen(dataset.access_urls['HTTPServer']))      *)
(* The server lists the datasets it holds in an order of its choosing.  A  *)
(* dataset is named after its time, and is modelled by that time, a number *)
(* (larger is later).  siphon keeps cat.datasets in the order of the       *)
(* catalog document.                                                       *)
(***************************************************************************)
GalleryIdle ==
    /\ lat_var = <<>> /\ lon_var = <<>> /\ lat = <<>> /\ lon = <<>>
    /\ temp_850 = Unset /\ u_wind_850 = Unset /\ v_wind_850 = Unset
    /\ hght_850 = Unset /\ n2 = 0
    /\ lon_2d = NoArray /\ lat_2d = NoArray
    /\ dx = Unset /\ dy = Unset /\ adv = Unset /\ Z_850 = Unset /\ cs2 = Unset
    /\ run = 1 /\ previous = NoResults

\* the listings a catalog can hold: up to MaxListed datasets of distinct times,
\* in any order
Listings ==
    UNION {IF k = 0 THEN {<<>>}
           ELSE {q \in [1..k -> 1..MaxListed] : \A a, b \in 1..k : a # b => q[a] # q[b]} :
           k \in 0..MaxListed}

InitWhetting ==
    /\ GalleryIdle /\ AnimationIdle /\ TimesIdle /\ HelperIdle
    /\ pc = "TDSCatalog" /\ err = "none"
    /\ listing \in Listings
    /\ cat = <<>> /\ dataset = 0 /\ gini_file = 0

\* cat = TDSCatalog(url)
ScanCatalog ==
    /\ Running("TDSCatalog")
    /\ cat' = listing
    /\ pc' = "select_dataset"
    /\ UNCHANGED <<err, notWhetting, listing, dataset, gini_file>>

\* dataset = cat.datasets[list(cat.datasets)[0]]
SelectDatasetReturns ==
    /\ Running("select_dataset")
    /\ Len(cat) > 0
    /\ dataset' = cat[1]
    /\ pc' = "urlopen"
    /\ UNCHANGED <<err, notWhetting, listing, cat, gini_file>>

\* list(cat.datasets)[0] of an empty catalog
SelectDatasetRaises ==
    /\ Running("select_dataset")
    /\ Len(cat) = 0
    /\ err' = "IndexError"
    /\ UNCHANGED <<pc, notWhetting, whetting>>

\* gini_file = GiniFile(urlopen(dataset.access_urls['HTTPServer']))
OpenGiniFile ==
    /\ Running("urlopen")
    /\ gini_file' = dataset
    /\ pc' = "open_dataset"
    /\ UNCHANGED <<err, notWhetting, listing, cat, dataset>>

NextWhetting ==
    \/ ScanCatalog
    \/ SelectDatasetReturns
    \/ SelectDatasetRaises
    \/ OpenGiniFile

SpecWhetting == InitWhetting /\ [][NextWhetting]_vars

(***************************************************************************)
(* Satellite Animations.ipynb, the animation cell.  A dataset is modelled  *)
(* by its time, a number; the catalog lists the datasets of the time range *)
(* oldest first or newest first.  Opening a dataset goes to the server and *)
(* may fail.                                                               *)
(***************************************************************************)
\* datasets[::-6]: from the last element backwards, every sixth
Stride == 6

ReverseSlice(q) ==
    [k \in 1..((Len(q) + Stride - 1) \div Stride) |-> q[Len(q) - (k - 1) * Stride]]

DatasetLists ==
    {[k \in 1..n |-> k] : n \in 0..MaxDatasets}
    \cup {[k \in 1..n |-> n + 1 - k] : n \in 0..MaxDatasets}

InitAnimation ==
    /\ GalleryIdle /\ WhettingIdle /\ TimesIdle /\ HelperIdle
    /\ pc = "datasets[0]" /\ err = "none"
    /\ datasets \in DatasetLists
    /\ visit = <<>>
    /\ ds = NoDataset /\ dat = 0 /\ timestamp = 0
    /\ im = NoArtist /\ text_time = NoArtist
    /\ artists = <<>> /\ anim = NoAnimation

\* ds = datasets[0]
FirstDatasetReturns ==
    /\ Running("datasets[0]")
    /\ Len(datasets) > 0
    /\ ds' = [of |-> datasets[1], opened |-> FALSE]
    /\ pc' = "first_remote_access"
    /\ UNCHANGED <<err, notAnimation, datasets, visit, dat, timestamp, im,
                   text_time, artists, anim>>

FirstDatasetRaises ==
    /\ Running("datasets[0]")
    /\ Len(datasets) = 0
    /\ err' = "IndexError"
    /\ UNCHANGED <<pc, notAnimation, animation>>

\* ds = ds.remote_access(use_xarray=True); dat = ds.metpy.parse_cf(...); the
\* figure is made; then the loop is entered: for ds in datasets[::-6]
FirstOpenReturns ==
    /\ Running("first_remote_access")
    /\ ds' = [ds EXCEPT !.opened = TRUE]
    /\ dat' = ds.of
    /\ visit' = ReverseSlice(datasets)
    /\ pc' = "for"
    /\ UNCHANGED <<err, notAnimation, datasets, timestamp, im, text_time,
                   artists, anim>>

\* for ds in datasets[::-6]: the next element, or the end of the loop
ForNext ==
    /\ Running("for")
    /\ Len(artists) < Len(visit)
    /\ ds' = [of |-> visit[Len(artists) + 1], opened |-> FALSE]
    /\ pc' = "remote_access"
    /\ UNCHANGED <<err, notAnimation, datasets, visit, dat, timestamp, im,
                   text_time, artists, anim>>

ForEnd ==
    /\ Running("for")
    /\ Len(artists) >= Len(visit)
    /\ pc' = "ArtistAnimation"
    /\ UNCHANGED <<err, notAnimation, animation>>

\* (mutant: the dataset opened but dat not parsed again, the dat of the
\* dataset before kept)
OpenKeepsDat ==
    /\ Running("remote_access")
    /\ ds' = [ds EXCEPT !.opened = TRUE]
    /\ pc' = "strptime"
    /\ UNCHANGED <<err, notAnimation, datasets, visit, dat, timestamp, im,
                   text_time, artists, anim>>

\* ds = ds.remote_access(use_xarray=True); dat = ds.metpy.parse_cf('Sectorized_CMI')
OpenReturns ==
    /\ Running("remote_access")
    /\ ds' = [ds EXCEPT !.opened = TRUE]
    /\ dat' = ds.of
    /\ pc' = "strptime"
    /\ UNCHANGED <<err, notAnimation, datasets, visit, timestamp, im,
                   text_time, artists, anim>>

\* the server cannot be reached, before or inside the loop
OpenRaises ==
    /\ Running("first_remote_access") \/ Running("remote_access")
    /\ err' = "HTTPError"
    /\ UNCHANGED <<pc, notAnimation, animation>>

\* timestamp = datetime.strptime(ds.start_date_time, '%Y%j%H%M%S')
ParseTimestamp ==
    /\ Running("strptime")
    /\ timestamp' = ds.of
    /\ pc' = "imshow"
    /\ UNCHANGED <<err, notAnimation, datasets, visit, ds, dat, im, text_time,
                   artists, anim>>

\* im = ax.imshow(dat, ...)
Imshow ==
    /\ Running("imshow")
    /\ im' = [artist |-> "image", of |-> dat]
    /\ pc' = "add_timestamp"
    /\ UNCHANGED <<err, notAnimation, datasets, visit, ds, dat, timestamp,
                   text_time, artists, anim>>

\* text_time = add_timestamp(ax, timestamp, ...)
AddTimestamp ==
    /\ Running("add_timestamp")
    /\ text_time' = [artist |-> "text", of |-> timestamp]
    /\ pc' = "append"
    /\ UNCHANGED <<err, notAnimation, datasets, visit, ds, dat, timestamp, im,
                   artists, anim>>

\* artists.append((im, text_time))
AppendArtists ==
    /\ Running("append")
    /\ artists' = Append(artists, <<im, text_time>>)
    /\ pc' = "for"
    /\ UNCHANGED <<err, notAnimation, datasets, visit, ds, dat, timestamp, im,
                   text_time, anim>>

\* anim = ArtistAnimation(fig, artists, interval=200., blit=False)
BuildAnimation ==
    /\ Running("ArtistAnimation")
    /\ anim' = [built |-> TRUE, frames |-> artists]
    /\ pc' = "save"
    /\ UNCHANGED <<err, notAnimation, datasets, visit, ds, dat, timestamp, im,
                   text_time, artists>>

NextAnimation ==
    \/ FirstDatasetReturns
    \/ FirstDatasetRaises
    \/ FirstOpenReturns
    \/ ForNext
    \/ ForEnd
    \/ OpenReturns
    \/ OpenRaises
    \/ ParseTimestamp
    \/ Imshow
    \/ AddTimestamp
    \/ AppendArtists
    \/ BuildAnimation

SpecAnimation == InitAnimation /\ [][NextAnimation]_vars

(***************************************************************************)
(* The "Times and Dates" notebook.  A datetime is the record of its        *)
(* fields (naive, whole seconds); the calendar is the proleptic Gregorian  *)
(* one of Python's datetime module.                                        *)
(***************************************************************************)
\* (mutant: every fourth year taken for a leap year)
IsLeapEveryFourth(y) == y % 4 = 0

IsLeap(y) == y % 4 = 0 /\ (y % 100 # 0 \/ y % 400 = 0)

DaysInMonth(y, m) ==
    CASE m = 2 -> IF IsLeap(y) THEN 29 ELSE 28
      [] m \in {4, 6, 9, 11} -> 30
      [] OTHER -> 31

\* number of days before January 1st of year y
DaysBeforeYear(y) ==
    LET p == y - 1 IN p * 365 + (p \div 4) - (p \div 100) + (p \div 400)

\* number of days in year y before the first day of month m
RECURSIVE DaysBeforeMonth(_, _)
DaysBeforeMonth(y, m) ==
    IF m = 1 THEN 0 ELSE DaysBeforeMonth(y, m - 1) + DaysInMonth(y, m - 1)

\* date.toordinal(): 1 for 0001-01-01
ToOrdinal(d) == DaysBeforeYear(d.year) + DaysBeforeMonth(d.year, d.month) + d.day

\* date.fromordinal(n), as datetime._ord2ymd computes it: 400-, 100-, 4- and
\* 1-year cycles, then the month estimated and corrected
FromOrdinal(ordinal) ==
    LET n0 == ordinal - 1
        n400 == n0 \div 146097
        r400 == n0 % 146097
        n100 == r400 \div 36524
        r100 == r400 % 36524
        n4 == r100 \div 1461
        r4 == r100 % 1461
        n1 == r4 \div 365
        n == r4 % 365
        year == n400 * 400 + 1 + n100 * 100 + n4 * 4 + n1
        leapyear == n1 = 3 /\ (n4 # 24 \/ n100 = 3)
        month == (n + 50) \div 32
        before(m) == DaysBeforeMonth(1, m) + (IF m > 2 /\ leapyear THEN 1 ELSE 0)
        m2 == IF before(month) > n THEN month - 1 ELSE month
    IN  IF n1 = 4 \/ n100 = 4
        THEN [year |-> year - 1, month |-> 12, day |-> 31]
        ELSE [year |-> year, month |-> m2, day |-> n - before(m2) + 1]

\* A timedelta is normalised: 0 <= seconds < 86400.  The values of the tide
\* cell are whole seconds (24 h 50 min divides by 4 without remainder), so
\* the microseconds, zero throughout, are left out.
Timedelta(d, sec) == [days |-> d + (sec \div 86400), seconds |-> sec % 86400]

TotalSeconds(td) == td.days * 86400 + td.seconds

\* timedelta / int: the total divided, rounded half to even
TimedeltaDiv(td, k) ==
    LET q == TotalSeconds(td) \div k
        r == TotalSeconds(td) % k
    IN  Timedelta(0, IF 2 * r > k \/ (2 * r = k /\ q % 2 = 1) THEN q + 1 ELSE q)

\* int * timedelta
TimedeltaMul(k, td) == Timedelta(0, k * TotalSeconds(td))

MaxOrdinal == 3652059

\* datetime + timedelta: the ordinal of the date and the time of day make a
\* timedelta, the other is added, and the sum is turned back into a date and
\* a time; OverflowError when the day is not within 0001-01-01..9999-12-31
DatetimeAdd(d, td) ==
    LET delta == Timedelta(ToOrdinal(d) + td.days,
                           d.hour * 3600 + d.minute * 60 + d.second + td.seconds)
        ymd == FromOrdinal(delta.days)
    IN  IF 0 < delta.days /\ delta.days <= MaxOrdinal
        THEN Return([year |-> ymd.year, month |-> ymd.month, day |-> ymd.day,
                     hour |-> delta.seconds \div 3600,
                     minute |-> (delta.seconds % 3600) \div 60,
                     second |-> (delta.seconds % 3600) % 60])
        ELSE Raise("OverflowError")

\* datetime - datetime: a timedelta
DatetimeSub(a, b) ==
    Timedelta(ToOrdinal(a) - ToOrdinal(b),
              (a.second + a.minute * 60 + a.hour * 3600)
                  - (b.second + b.minute * 60 + b.hour * 3600))

\* A string of digits is the sequence of its digits.
RECURSIVE Decimal(_)
Decimal(n) == IF n < 10 THEN <<n>> ELSE Append(Decimal(n \div 10), n % 10)

\* (mutant: the field written without its leading zero)
Unpadded2(n) == Decimal(n)

\* %m, %d, %H, %M: two digits, zero-padded
Digits2(n) == <<n \div 10, n % 10>>

\* dt.strftime('%Y%m%d%H%M'); %Y is the year in decimal, four digits for the
\* years from 1000 to 9999
strftime(d) ==
    Decimal(d.year) \o Digits2(d.month) \o Digits2(d.day)
        \o Digits2(d.hour) \o Digits2(d.minute)

\* "...timeseries?stid={}&start={}&end={}&vars={}&token=demotoken".format(...):
\* the query of the URL as its (parameter, value) pairs, each {} filled by
\* the argument of its position
UrlFormat(args) ==
    [k \in 1..4 |-> <<(<<"stid", "start", "end", "vars">>)[k], args[k]>>]
        \o <<(<<"token", "demotoken">>)>>

Datetime(y, m, d, h, mi, sec) ==
    [year |-> y, month |-> m, day |-> d, hour |-> h, minute |-> mi, second |-> sec]

Datetimes ==
    {Datetime(y, m, d, h, mi, sec) :
        y \in 2016..(2015 + MaxYears), m \in {6, 10}, d \in {1, 30},
        h \in {0, 12}, mi \in {0, 5}, sec \in {0, 59}}

InitMetar ==
    /\ GalleryIdle /\ WhettingIdle /\ AnimationIdle /\ HelperIdle /\ TideIdle
    /\ pc = "st" /\ err = "none"
    /\ icao = "pasy" /\ var = "air_temp"
    /\ starttime \in Datetimes /\ endtime \in Datetimes
    /\ st = <<>> /\ et = <<>> /\ url = <<>>

\* st = starttime.strftime(fmt)
MetarFormatStart ==
    /\ Running("st")
    /\ st' = strftime(starttime)
    /\ pc' = "et"
    /\ UNCHANGED <<err, notTimes, tideVars, icao, starttime, endtime, var, et, url>>

\* et = endtime.strftime(fmt)
MetarFormatEnd ==
    /\ Running("et")
    /\ et' = strftime(endtime)
    /\ pc' = "urlopen"
    /\ UNCHANGED <<err, notTimes, tideVars, icao, starttime, endtime, var, st, url>>

\* reply = urllib.request.urlopen(url.format(icao, st, et, var))
MetarRequest ==
    /\ Running("urlopen")
    /\ url' = UrlFormat(<<icao, st, et, var>>)
    /\ pc' = "return"
    /\ UNCHANGED <<err, notTimes, tideVars, icao, starttime, endtime, var, st, et>>

NextMetar ==
    \/ MetarFormatStart
    \/ MetarFormatEnd
    \/ MetarRequest

SpecMetar == InitMetar /\ [][NextMetar]_vars

\* The tide cell; high_tide is dt.datetime(2016, 6, 1, 4, 38, 0) in the
\* notebook, and any date and time of day here.
HighTides ==
    {Datetime(ymd[1], ymd[2], ymd[3], hms[1], hms[2], hms[3]) :
        ymd \in {<<2016, 6, 1>>, <<2016, 2, 28>>, <<2016, 2, 29>>, <<2017, 2, 28>>,
                 <<2016, 12, 31>>, <<2000, 2, 28>>, <<2100, 2, 28>>, <<9999, 12, 31>>},
        hms \in {<<0, 0, 0>>, <<4, 38, 0>>, <<11, 35, 0>>, <<12, 0, 0>>,
                 <<17, 47, 30>>, <<18, 0, 0>>, <<23, 59, 59>>}}

InitTide ==
    /\ GalleryIdle /\ WhettingIdle /\ AnimationIdle /\ HelperIdle /\ MetarIdle
    /\ pc = "lunar_day" /\ err = "none"
    /\ high_tide \in HighTides
    /\ lunar_day = NoTimedelta /\ tide_duration = NoTimedelta
    /\ next_low_tide = NoDatetime /\ next_high_tide = NoDatetime
    /\ tide_length = NoTimedelta

\* lunar_day = dt.timedelta(hours=24, minutes=50)
BindLunarDay ==
    /\ Running("lunar_day")
    /\ lunar_day' = Timedelta(0, 24 * 3600 + 50 * 60)
    /\ pc' = "tide_duration"
    /\ UNCHANGED <<err, notTimes, metarVars, high_tide, tide_duration, next_low_tide,
                   next_high_tide, tide_length>>

\* tide_duration = lunar_day / 4
BindTideDuration ==
    /\ Running("tide_duration")
    /\ tide_duration' = TimedeltaDiv(lunar_day, 4)
    /\ pc' = "next_low_tide"
    /\ UNCHANGED <<err, notTimes, metarVars, high_tide, lunar_day, next_low_tide,
                   next_high_tide, tide_length>>

\* next_low_tide = high_tide + tide_duration
NextLowTideReturns ==
    /\ Running("next_low_tide")
    /\ DatetimeAdd(high_tide, tide_duration).exc = "none"
    /\ next_low_tide' = DatetimeAdd(high_tide, tide_duration).value
    /\ pc' = "next_high_tide"
    /\ UNCHANGED <<err, notTimes, metarVars, high_tide, lunar_day, tide_duration,
                   next_high_tide, tide_length>>

NextLowTideRaises ==
    /\ Running("next_low_tide")
    /\ DatetimeAdd(high_tide, tide_duration).exc # "none"
    /\ err' = DatetimeAdd(high_tide, tide_duration).exc
    /\ UNCHANGED <<pc, notTimes, times>>

\* next_high_tide = high_tide + (2 * tide_duration)
NextHighTideReturns ==
    /\ Running("next_high_tide")
    /\ DatetimeAdd(high_tide, TimedeltaMul(2, tide_duration)).exc = "none"
    /\ next_high_tide' = DatetimeAdd(high_tide, TimedeltaMul(2, tide_duration)).value
    /\ pc' = "tide_length"
    /\ UNCHANGED <<err, notTimes, metarVars, high_tide, lunar_day, tide_duration,
                   next_low_tide, tide_length>>

NextHighTideRaises ==
    /\ Running("next_high_tide")
    /\ DatetimeAdd(high_tide, TimedeltaMul(2, tide_duration)).exc # "none"
    /\ err' = DatetimeAdd(high_tide, TimedeltaMul(2, tide_duration)).exc
    /\ UNCHANGED <<pc, notTimes, times>>

\* tide_length = next_high_tide - high_tide
BindTideLength ==
    /\ Running("tide_length")
    /\ tide_length' = DatetimeSub(next_high_tide, high_tide)
    /\ pc' = "print"
    /\ UNCHANGED <<err, notTimes, metarVars, high_tide, lunar_day, tide_duration,
                   next_low_tide, next_high_tide>>

NextTide ==
    \/ BindLunarDay
    \/ BindTideDuration
    \/ NextLowTideReturns
    \/ NextLowTideRaises
    \/ NextHighTideReturns
    \/ NextHighTideRaises
    \/ BindTideLength

SpecTide == InitTide /\ [][NextTide]_vars

(***************************************************************************)
(* 850hPa_Temperature_Advection.ipynb, find_time_var(var, time_basename).  *)
(* A string is the sequence of its characters.  The strings tried are      *)
(* those of up to MaxLen characters over two letters and two kinds of      *)
(* whitespace; the basename "t" stands for the default 'time'.             *)
(***************************************************************************)
Whitespace == {" ", "\t"}

Letters == {"t", "x"}

Strings == UNION {[1..n -> Letters \cup Whitespace] : n \in 0..MaxLen}

Basenames == {<<>>, <<"t">>, <<"x">>, <<"t", "x">>}

\* var.name: the names of the variable handed in
VarNames == {<<"T">>, <<"u", "v">>}

\* 'No time variable found for '
NoTimeVariableFound ==
    <<"N", "o", " ", "t", "i", "m", "e", " ", "v", "a", "r", "i", "a", "b",
      "l", "e", " ", "f", "o", "u", "n", "d", " ", "f", "o", "r", " ">>

\* str.split() with no separator: the runs of characters that are not
\* whitespace, left to right; whitespace at the ends yields no empty string.
RECURSIVE SplitScan(_, _, _, _)
SplitScan(s, i, word, words) ==
    LET closed == IF word = <<>> THEN words ELSE Append(words, word)
    IN  IF i > Len(s) THEN closed
        ELSE IF s[i] \in Whitespace THEN SplitScan(s, i + 1, <<>>, closed)
        ELSE SplitScan(s, i + 1, Append(word, s[i]), words)

split(s) == SplitScan(s, 1, <<>>, <<>>)

\* str.startswith(prefix)
startswith(s, prefix) ==
    Len(prefix) <= Len(s) /\ SubSeq(s, 1, Len(prefix)) = prefix

InitHelper ==
    /\ GalleryIdle /\ WhettingIdle /\ AnimationIdle /\ TimesIdle
    /\ pc = "split" /\ err = "none"
    /\ coordinates \in Strings
    /\ time_basename \in Basenames
    /\ name \in VarNames
    /\ coord_names = <<>> /\ position = 0 /\ coord_name = <<>> /\ returned = <<>>
    /\ message = <<>>

\* var.coordinates.split()
Split ==
    /\ Running("split")
    /\ coord_names' = split(coordinates)
    /\ position' = 0
    /\ pc' = "for"
    /\ UNCHANGED <<err, notHelper, coordinates, name, time_basename, coord_name, returned,
                   message>>

\* (mutant: the names visited from the last to the first)
NextCoordNameFromTheEnd ==
    /\ Running("for")
    /\ position < Len(coord_names)
    /\ coord_name' = coord_names[Len(coord_names) - position]
    /\ position' = position + 1
    /\ pc' = "startswith"
    /\ UNCHANGED <<err, notHelper, coordinates, name, time_basename, coord_names, returned,
                   message>>

\* for coord_name in ...: the next name of the list
NextCoordName ==
    /\ Running("for")
    /\ position < Len(coord_names)
    /\ coord_name' = coord_names[position + 1]
    /\ position' = position + 1
    /\ pc' = "startswith"
    /\ UNCHANGED <<err, notHelper, coordinates, name, time_basename, coord_names, returned,
                   message>>

\* if coord_name.startswith(time_basename): return coord_name
ReturnCoordName ==
    /\ Running("startswith")
    /\ startswith(coord_name, time_basename)
    /\ returned' = coord_name
    /\ pc' = "return"
    /\ UNCHANGED <<err, notHelper, coordinates, name, time_basename, coord_names,
                   position, coord_name, message>>

\* the test fails: on to the next name
SkipCoordName ==
    /\ Running("startswith")
    /\ ~startswith(coord_name, time_basename)
    /\ pc' = "for"
    /\ UNCHANGED <<err, notHelper, coordinates, name, time_basename, coord_names,
                   position, coord_name, returned, message>>

\* (mutant: no raise after the loop, the function falling off its end and
\* returning None)
ReturnsNone ==
    /\ Running("for")
    /\ position = Len(coord_names)
    /\ returned' = <<>>
    /\ pc' = "return"
    /\ UNCHANGED <<err, notHelper, coordinates, name, time_basename, coord_names,
                   position, coord_name, message>>

\* the loop ends without a return:
\* raise ValueError('No time variable found for ' + var.name)
NoTimeVariable ==
    /\ Running("for")
    /\ position = Len(coord_names)
    /\ err' = "ValueError"
    /\ message' = NoTimeVariableFound \o name
    /\ UNCHANGED <<pc, notHelper, coordinates, name, time_basename, coord_names,
                   position, coord_name, returned>>

NextHelper ==
    \/ Split
    \/ NextCoordName
    \/ ReturnCoordName
    \/ SkipCoordName
    \/ NoTimeVariable

SpecHelper == InitHelper /\ [][NextHelper]_vars

(***************************************************************************)
(* Properties.                                                             *)
(***************************************************************************)
StmtOrder ==
    <<"meshgrid", "gridshift", "lat_lon_grid_deltas", "advection", "smooth_hght",
      "smooth_adv", "contour_temp", "contourf_adv", "done">>

StmtIndex(stmt) == CHOOSE k \in 1..Len(StmtOrder) : StmtOrder[k] = stmt

\* the statement has returned
Returned(stmt) == StmtIndex(pc) > StmtIndex(stmt)

\* the statement has run: it returned or it raised
Attempted(stmt) == Returned(stmt) \/ (pc = stmt /\ err # "none")

Elements(a) == {a[i][j] : i \in 1..Len(a), j \in 1..Len(a[1])}

IsPositive(x) == x[1] > 0

IsNegative(x) == x[1] < 0

\* C1 as stated: on a grid whose lat and lon are each monotonic (ascending or
\* descending), every element of the returned dx and dy is strictly positive.
C1_AsStated ==
    (Returned("lat_lon_grid_deltas") /\ IsMonotonic(lat) /\ IsMonotonic(lon))
        => \A x \in Elements(dx.val) \cup Elements(dy.val) : IsPositive(x)

\* C1 amended: lat_lon_grid_deltas returns dx of shape M x (N-1) and dy of
\* shape (M-1) x N, in metres, no element zero, and each element signed by the
\* direction of its coordinate step: dy[i][j] is positive where lat[i+1] >
\* lat[i] and negative where it is smaller, dx[i][j] likewise for lon; on the
\* north-to-south latitude the data source delivers every dy is negative.
C1_SignedDeltas ==
    Returned("lat_lon_grid_deltas") =>
        /\ Shape(dx.val) = <<Len(lat), Len(lon) - 1>>
        /\ Shape(dy.val) = <<Len(lat) - 1, Len(lon)>>
        /\ dx.unit = Metre /\ dy.unit = Metre
        /\ \A i \in 1..(Len(lat) - 1) : \A j \in 1..Len(lon) :
              IF lat[i + 1] > lat[i] THEN IsPositive(dy.val[i][j])
              ELSE IsNegative(dy.val[i][j])
        /\ \A i \in 1..Len(lat) : \A j \in 1..(Len(lon) - 1) :
              IF lon[j + 1] > lon[j] THEN IsPositive(dx.val[i][j])
              ELSE IsNegative(dx.val[i][j])

C1_Witness ==
    /\ Returned("lat_lon_grid_deltas")
    /\ lat = GfsLat /\ lon = GfsLon
    /\ \A x \in Elements(dy.val) : IsNegative(x)
    /\ \A x \in Elements(dx.val) : IsPositive(x)

\* C2: the advection of a spatially uniform scalar field is zero at every grid
\* point, interior and boundary, whatever the wind and the spacing.
C2_UniformFieldZeroAdvection ==
    (pc = "smooth_hght" /\ IsUniform(temp_850.val))
        => \A x \in Elements(adv.val) : x = <<0, 1>>

C2_Witness ==
    /\ pc = "smooth_hght"
    /\ IsUniform(temp_850.val)
    /\ temp_850.val[1][1] # <<0, 1>>
    /\ ~IsMonotonic(lat)
    /\ u_wind_850.val[1][1] # <<0, 1>>
    /\ \A x \in Elements(adv.val) : x = <<0, 1>>

Double(q) ==
    [val |-> [i \in 1..Len(q.val) |-> [j \in 1..Len(q.val[1]) |-> RMul(R(2), q.val[i][j])]],
     unit |-> q.unit]

\* C3: advection is linear in the wind: with the scalar field and the spacing
\* held fixed, the advection by (2u, 2v) is twice the advection by (u, v) at
\* every grid point.
C3_LinearInWind ==
    pc = "smooth_hght" =>
        advection(temp_850, Double(u_wind_850), Double(v_wind_850), dx, dy).value
            = Double(adv)

C3_Witness ==
    /\ pc = "smooth_hght"
    /\ u_wind_850.val = ShearWind.u
    /\ \A x \in Elements(adv.val) : x # <<0, 1>>
    /\ advection(temp_850, Double(u_wind_850), Double(v_wind_850), dx, dy).value
           = Double(adv)

\* C4: with T(x, y) = x (kelvin, x in metres) and the constant wind u = 1,
\* v = 0, the advection is -1 kelvin per second at the interior point and at
\* every boundary point; with T the column index on evenly spaced longitudes it
\* is -1 / dx of the row, at interior and boundary points alike.
IsConst(a, c) == \A x \in Elements(a) : x = R(c)

C4_LinearFieldAdvection ==
    (pc = "smooth_hght" /\ IsConst(u_wind_850.val, 1) /\ IsConst(v_wind_850.val, 0)
        /\ Shape(u_wind_850.val) = Shape(temp_850.val))
        => /\ temp_850.val = XField(lon, lat)
                => \A x \in Elements(adv.val) : x = <<-1, 1>>
           /\ (temp_850.val = ColRamp(1) /\ lon = GfsLon)
                => \A i \in 1..Len(lat) : \A j \in 1..Len(lon) :
                      adv.val[i][j] = RDiv(<<-1, 1>>, dx.val[i][1])

C4_Witness ==
    /\ pc = "smooth_hght"
    /\ lat = GfsLat /\ lon = GfsLon
    /\ temp_850.val = XField(lon, lat)
    /\ IsConst(u_wind_850.val, 1) /\ IsConst(v_wind_850.val, 0)
    /\ adv.val[2][2] = <<-1, 1>> /\ adv.val[1][1] = <<-1, 1>>
    /\ adv.unit = KelvinPerSecond

HasBothSigns(a) ==
    (\E x \in Elements(a) : IsPositive(x)) /\ (\E x \in Elements(a) : IsNegative(x))

\* C5 as stated: called with a non-monotonic coordinate sequence, the grid-delta
\* call fails with InvalidGridError and returns no dx/dy arrays.
C5_AsStated ==
    (~IsMonotonic(lat) \/ ~IsMonotonic(lon)) =>
        /\ dx = Unset /\ dy = Unset
        /\ Attempted("lat_lon_grid_deltas") => err = "InvalidGridError"

\* C5 amended: the grid-delta call checks no ordering and raises nothing: for a
\* non-monotonic lat (or lon) of distinct values it returns dx and dy of the
\* usual shapes, and dy (or dx) then holds both positive and negative deltas.
C5_NonMonotonicReturnsSignedDeltas ==
    /\ pc = "lat_lon_grid_deltas" => err = "none"
    /\ (Attempted("lat_lon_grid_deltas") /\ ~IsMonotonic(lat)) =>
          /\ Returned("lat_lon_grid_deltas")
          /\ Shape(dy.val) = <<Len(lat) - 1, Len(lon)>>
          /\ HasBothSigns(dy.val)
    /\ (Attempted("lat_lon_grid_deltas") /\ ~IsMonotonic(lon)) =>
          /\ Returned("lat_lon_grid_deltas")
          /\ Shape(dx.val) = <<Len(lat), Len(lon) - 1>>
          /\ HasBothSigns(dx.val)

C5_Witness ==
    /\ pc = "advection" /\ err = "none"
    /\ lat[1] < lat[2] /\ lat[2] > lat[3] /\ lat[3] > lat[1]
    /\ IsPositive(dy.val[1][1]) /\ IsNegative(dy.val[2][1])

ShapeDiffers ==
    \/ Shape(u_wind_850.val) # Shape(temp_850.val)
    \/ Shape(v_wind_850.val) # Shape(temp_850.val)

\* each axis of the wind has the scalar field's length or length 1
WindStretches ==
    /\ Shape(u_wind_850.val) = Shape(v_wind_850.val)
    /\ \A k \in 1..2 : Shape(u_wind_850.val)[k] \in {1, Shape(temp_850.val)[k]}

\* C6 as stated: advection called with a scalar field and a wind field of
\* different shapes fails (with its shape error, whatever its name) and
\* returns no field.
C6_AsStated ==
    (ShapeDiffers /\ Attempted("advection")) =>
        (err # "none" /\ adv = Unset)

\* C6 amended: advection called with a wind field whose shape differs from the
\* scalar field's fails with ValueError and returns no field when the shapes
\* cannot be broadcast (u and v differ in shape, or an axis differs from the
\* scalar's and is not of length 1, as 4x4 against 3x3); a wind whose differing
\* axes have length 1 is broadcast and a field of the scalar's shape returned.
C6_ShapeMismatchValueError ==
    (ShapeDiffers /\ Attempted("advection")) =>
        IF WindStretches
        THEN Returned("advection") /\ Shape(adv.val) = Shape(temp_850.val)
        ELSE pc = "advection" /\ err = "ValueError" /\ adv = Unset

C6_Witness ==
    /\ pc = "advection" /\ err = "ValueError" /\ adv = Unset
    /\ Shape(temp_850.val) = <<GridSize, GridSize>>
    /\ Shape(u_wind_850.val) = <<GridSize + 1, GridSize + 1>>
    /\ Shape(v_wind_850.val) = <<GridSize + 1, GridSize + 1>>

WindIsDistancePerTime ==
    u_wind_850.unit = MetrePerSecond /\ v_wind_850.unit = MetrePerSecond

\* C7 as stated: advection fails (with its unit error, whatever its name) when
\* the wind is not in distance/time (the spacing being a distance); when it is,
\* the result carries the scalar's unit per time.
C7_AsStated ==
    (Attempted("advection") /\ ~ShapeDiffers) =>
        IF WindIsDistancePerTime
        THEN Returned("advection")
             /\ (pc = "smooth_hght" => adv.unit = UnitDiv(temp_850.unit, <<0, 0, 1>>))
        ELSE err # "none" /\ adv = Unset

\* C7 amended: advection checks no dimension.  It fails, with pint's
\* DimensionalityError, only when v cannot be converted to u's unit; otherwise
\* it returns a field whose unit is scalar unit * wind unit / spacing unit,
\* which is the scalar's unit per second when the wind is in metres per second
\* (kelvin/second for a temperature), and any other product when it is not.
C7_UnitPropagation ==
    (Attempted("advection") /\ ~ShapeDiffers) =>
        IF v_wind_850.unit = u_wind_850.unit
        THEN /\ Returned("advection")
             /\ adv.unit = <<temp_850.unit[1] + u_wind_850.unit[1],
                             temp_850.unit[2] + u_wind_850.unit[2] - 1,
                             temp_850.unit[3] + u_wind_850.unit[3]>>
             /\ WindIsDistancePerTime => adv.unit = UnitDiv(temp_850.unit, <<0, 0, 1>>)
        ELSE pc = "advection" /\ err = "DimensionalityError" /\ adv = Unset

C7_Witness ==
    /\ pc = "smooth_hght"
    /\ temp_850.unit = Kelvin
    /\ u_wind_850.unit = Kelvin /\ v_wind_850.unit = Kelvin
    /\ adv.unit = <<2, -1, 0>>

Defined(q) == q = Unset \/ \A x \in Elements(q.val) : x[2] > 0

\* C8 as stated: the operation that receives an offending input raises at once:
\* with a non-monotonic grid the run never gets past the grid-delta call, and
\* with a shape or unit violation it never gets past advection, which returns
\* nothing.
C8_AsStated ==
    /\ (~IsMonotonic(lat) \/ ~IsMonotonic(lon)) =>
          (~Returned("lat_lon_grid_deltas") /\ dx = Unset /\ dy = Unset)
    /\ (ShapeDiffers \/ ~WindIsDistancePerTime \/ temp_850.unit # Kelvin) =>
          (~Returned("advection") /\ adv = Unset)

\* C8 amended: only advection and the two unit conversions of the plotting
\* cell raise (ValueError or DimensionalityError; the grid-delta call and
\* smooth_gaussian never do).  A statement that raises binds nothing (no
\* partial result), nothing runs after it and nothing is retried.  advection
\* raises exactly when v's unit does not convert to u's or the wind's shape
\* cannot be broadcast; a unit violation it lets through is raised by the
\* first conversion that meets it (temp_850.to or adv.to), after the smoothing.
\* No returned array holds an undefined value.
C8_RaisesAbortTheRun ==
    [][/\ err = "none"
       /\ err' # "none" =>
            /\ pc' = pc /\ UNCHANGED <<dx, dy, adv, Z_850>>
            /\ pc \in {"advection", "contour_temp", "contourf_adv"}
            /\ pc = "advection" =>
                  /\ adv = Unset /\ Z_850 = Unset
                  /\ u_wind_850.unit # v_wind_850.unit \/ ~WindStretches
                  /\ err' = IF u_wind_850.unit # v_wind_850.unit
                            THEN "DimensionalityError" ELSE "ValueError"
            /\ pc = "contour_temp" =>
                  (temp_850.unit # Kelvin /\ err' = "DimensionalityError")
            /\ pc = "contourf_adv" =>
                  (adv.unit # KelvinPerSecond /\ err' = "DimensionalityError")
       /\ (err' = "none" /\ pc = "advection") =>
            (u_wind_850.unit = v_wind_850.unit /\ WindStretches)
       /\ pc' = "done" => (temp_850.unit = Kelvin /\ adv.unit = KelvinPerSecond)
       /\ Defined(dx') /\ Defined(dy') /\ Defined(adv') /\ Defined(Z_850')
      ]_vars

C8_Witness ==
    /\ pc = "contourf_adv" /\ err = "DimensionalityError"
    /\ ~WindIsDistancePerTime
    /\ adv # Unset /\ Z_850 # Unset

\* C9: smooth_gaussian returns an array of the shape and with the unit tag of
\* its argument, for every field and degree: Z_850 has hght_850's shape and no
\* unit, the smoothed adv has the shape and unit of the advection it was
\* computed from, so that it still converts to delta_degC/hour when the
\* advection was in kelvin per second.
C9_SmoothKeepsShapeAndUnit ==
    /\ Returned("smooth_hght") =>
          /\ Shape(Z_850.val) = Shape(hght_850.val)
          /\ Z_850.unit = hght_850.unit
    /\ Returned("smooth_adv") =>
          /\ Shape(adv.val) = Shape(AdvectionCall.value.val)
          /\ Shape(adv.val) = <<Len(lat), Len(lon)>>
          /\ adv.unit = AdvectionCall.value.unit
          /\ (temp_850.unit = Kelvin /\ WindIsDistancePerTime)
                => Convertible(adv.unit, KelvinPerSecond)

C9_Witness ==
    /\ pc = "done"
    /\ n2 = MaxDeg2
    /\ ~IsUniform(hght_850.val)
    /\ Shape(Z_850.val) = <<GridSize, GridSize>> /\ Z_850.unit = NoUnit
    /\ Shape(adv.val) = <<GridSize, GridSize>> /\ adv.unit = KelvinPerSecond

Tolerance == <<1, 100>>

Within(a, b, tol) ==
    \A i \in 1..Len(a) : \A j \in 1..Len(a[1]) : RLeq(RAbs(RSub(a[i][j], b[i][j])), tol)

\* C10 as stated: smooth_gaussian called with a value that is effectively zero
\* returns the unsmoothed input, within tolerance, at every grid point.
C10_AsStated ==
    (Returned("smooth_hght") /\ n2 = 0) => Within(Z_850.val, hght_850.val, Tolerance)

\* C10 amended: the second argument of smooth_gaussian is a degree of
\* filtering, rounded to an integer and raised to 2 when below 2: called with a
\* value that rounds below 2 (zero included) it returns exactly what it returns
\* for 2, which equals the input only when the field is uniform.
C10_DegreeBelowTwoSmoothsAsTwo ==
    (Returned("smooth_hght") /\ RoundHalves(n2) < 2) =>
        /\ Z_850.val = gaussian_filter(hght_850.val, <<1, 139, 1>>)
        /\ Z_850.val = hght_850.val <=> IsUniform(hght_850.val)

C10_Witness ==
    /\ Returned("smooth_hght") /\ n2 = 0
    /\ hght_850.val = SpikeField(2, 2, MaxVal)
    /\ Z_850.val[2][2] = RMul(R(MaxVal), <<139 * 139, 141 * 141>>)
    /\ Z_850.val[1][2] = RMul(R(MaxVal), <<139, 141 * 141>>)

RECURSIVE RSum(_)
RSum(q) == IF q = <<>> THEN <<0, 1>> ELSE RAdd(Head(q), RSum(Tail(q)))

Mean(a) == RDiv(RSum([i \in 1..Len(a) |-> RSum(a[i])]), R(Len(a) * Len(a[1])))

\* C11: smooth_gaussian preserves the mean of the field: the mean of Z_850 is
\* the mean of hght_850 and the mean of the smoothed advection is the mean of
\* the advection, for every field and degree.  The kernel is normalised and
\* the boundary is reflected, so the equality holds over the whole field, the
\* boundary rows and columns included, and so wherever the field is nonzero
\* only in the interior.
C11_SmoothPreservesMean ==
    [][/\ pc = "smooth_hght" /\ pc' # pc => Mean(Z_850'.val) = Mean(hght_850.val)
       /\ pc = "smooth_adv" /\ pc' # pc => Mean(adv'.val) = Mean(adv.val)
      ]_vars

C11_Witness ==
    /\ Returned("smooth_hght")
    /\ n2 = MaxDeg2
    /\ hght_850.val = SpikeField(2, 2, MaxVal)
    /\ Z_850.val # hght_850.val
    /\ Z_850.val[1][1] # <<0, 1>>
    /\ Mean(Z_850.val) = RNorm(MaxVal, GridSize * GridSize)

\* C12: no statement of the calculation and plotting cells alters an array it
\* was given: lat_var, lon_var, lat, lon, temp_850, u_wind_850, v_wind_850 and
\* hght_850 keep their values through every step, dx, dy and lat_2d keep theirs
\* once bound, and Z_850 and adv are bound to new arrays.  The one in-place
\* write, the longitude shift, changes lon_2d alone: the 1-D lon and the
\* lon_var and lat_var handed to the grid-delta call are as they were.
C12_NoSideEffects ==
    [][/\ UNCHANGED <<lat_var, lon_var, lat, lon>>
       /\ UNCHANGED <<temp_850, u_wind_850, v_wind_850, hght_850>>
       /\ dx # Unset => dx' = dx
       /\ dy # Unset => dy' = dy
       /\ lat_2d # NoArray => lat_2d' = lat_2d
       /\ lon_2d' # lon_2d => pc \in {"meshgrid", "gridshift"}
       /\ pc = "gridshift" => Shape(lon_2d'.val) = Shape(lon_2d.val)
       /\ Z_850' # Z_850 => pc = "smooth_hght"
       /\ adv' # adv => pc \in {"advection", "smooth_adv"}
      ]_vars

C12_Witness ==
    /\ pc = "done"
    /\ lon = GfsLon /\ lon_var = GfsLon
    /\ lat = GfsLat /\ lat_var = GfsLat
    /\ \E j \in 1..Len(lon) : lon[j] > 180 /\ lon_2d.val[1][j] = lon[j] - 360
    /\ \E j \in 1..Len(lon) : lon[j] <= 180 /\ lon_2d.val[1][j] = lon[j]
    /\ lat_2d.val = meshgrid(lon, lat).Y.val
    /\ adv # Unset /\ Z_850 # Unset

C14_AsStated ==
    pc \in {"urlopen", "open_dataset"} =>
        \A k \in 1..Len(listing) : listing[k] <= dataset

\* the k-th dataset the loop visits: counted from the last, every sixth
Visited(k) == datasets[Len(datasets) - 6 * (k - 1)]

\* C15: every frame in artists is a pair (image, timestamp text) whose two
\* artists come from one and the same dataset; artists holds exactly one pair
\* for each dataset the loop has visited so far, in visit order (the k-th pair
\* from the k-th dataset of datasets[::-6]); and the animation is built only
\* after the loop has ended, from the complete list, one frame for each of the
\* Len(datasets) over 6 (rounded up) datasets visited.
C15_FramesPairOneDataset ==
    /\ \A k \in 1..Len(artists) :
          /\ artists[k][1].artist = "image" /\ artists[k][2].artist = "text"
          /\ artists[k][1].of = artists[k][2].of
          /\ artists[k][1].of = Visited(k)
    /\ 6 * Len(artists) < Len(datasets) + 6
    /\ pc \in {"remote_access", "strptime", "imshow", "add_timestamp", "append"} =>
          ds.of = Visited(Len(artists) + 1)
    /\ anim.built =>
          /\ pc = "save"
          /\ anim.frames = artists
          /\ 6 * Len(artists) >= Len(datasets)
    /\ ~anim.built => anim.frames = <<>>

C15_Witness ==
    /\ anim.built
    /\ Len(datasets) = 13
    /\ datasets[1] = 13
    /\ Len(anim.frames) = 3
    /\ anim.frames[1][1].of = 1 /\ anim.frames[2][2].of = 7 /\ anim.frames[3][1].of = 13

\* the digits read as a number
RECURSIVE Number(_)
Number(q) == IF q = <<>> THEN 0 ELSE 10 * Number(SubSeq(q, 1, Len(q) - 1)) + q[Len(q)]

\* string order: the first position that differs decides, a proper prefix
\* comes first
StrLess(a, b) ==
    \E k \in 1..Len(b) :
        /\ \A t \in 1..(k - 1) : t <= Len(a) /\ a[t] = b[t]
        /\ k > Len(a) \/ a[k] < b[k]

\* minutes since the start of the calendar
MinuteOf(d) == (ToOrdinal(d) * 24 + d.hour) * 60 + d.minute

FormatsAs(q, d) ==
    /\ Len(q) = 12
    /\ Number(SubSeq(q, 1, 4)) = d.year
    /\ Number(SubSeq(q, 5, 6)) = d.month
    /\ Number(SubSeq(q, 7, 8)) = d.day
    /\ Number(SubSeq(q, 9, 10)) = d.hour
    /\ Number(SubSeq(q, 11, 12)) = d.minute

\* C16: metar formats starttime and endtime (datetimes of four-digit years) as
\* the twelve digits YYYYMMDDHHMM, zero-padded, the seconds dropped (2016-06-01
\* 00:00 gives 201606010000), and puts icao, the start string, the end string
\* and var into the stid, start, end and vars parameters, in that order; the
\* order of the two strings is the order of the two datetimes at minute
\* resolution (equal strings for the same minute).
C16_MetarFormatsTheTimes ==
    /\ pc \in {"et", "urlopen", "return"} =>
          /\ FormatsAs(st, starttime)
          /\ starttime = Datetime(2016, 6, 1, 0, 0, 0) => st = <<2, 0, 1, 6, 0, 6, 0, 1, 0, 0, 0, 0>>
    /\ pc \in {"urlopen", "return"} =>
          /\ FormatsAs(et, endtime)
          /\ StrLess(st, et) <=> MinuteOf(starttime) < MinuteOf(endtime)
          /\ st = et <=> MinuteOf(starttime) = MinuteOf(endtime)
    /\ pc = "return" =>
          url = << <<"stid", icao>>, <<"start", st>>, <<"end", et>>, <<"vars", var>>,
                   <<"token", "demotoken">> >>

C16_Witness ==
    /\ pc = "return"
    /\ starttime = Datetime(2016, 6, 30, 12, 5, 59)
    /\ endtime = Datetime(2016, 10, 1, 0, 0, 0)
    /\ url[2] = <<"start", <<2, 0, 1, 6, 0, 6, 3, 0, 1, 2, 0, 5>> >>
    /\ url[3] = <<"end", <<2, 0, 1, 6, 1, 0, 0, 1, 0, 0, 0, 0>> >>
    /\ StrLess(st, et)

CenteredDifference(f, d, k) == RDiv(RSub(f[k + 1], f[k - 1]), RAdd(d[k - 1], d[k]))

ForwardDifference(f, d) ==
    RDiv(RSub(RSub(RMul(R(4), f[2]), RMul(R(3), f[1])), f[3]), RMul(R(2), d[1]))

BackwardDifference(f, d) ==
    LET n == Len(f)
    IN  RDiv(RAdd(RSub(RMul(R(3), f[n]), RMul(R(4), f[n - 1])), f[n - 2]),
             RMul(R(2), d[n - 1]))

DifferenceAt(f, d, k) ==
    IF k = 1 THEN ForwardDifference(f, d)
    ELSE IF k = Len(f) THEN BackwardDifference(f, d)
    ELSE CenteredDifference(f, d, k)

EvenlySpaced(d) == \A k \in 1..Len(d) : d[k] = d[1]

UnsmoothedAdvection ==
    advection(temp_850, u_wind_850, v_wind_850,
              lat_lon_grid_deltas(lon_var, lat_var).dx,
              lat_lon_grid_deltas(lon_var, lat_var).dy).value

C19_PipelineOrder ==
    [][/\ pc' # pc => StmtIndex(pc') = StmtIndex(pc) + 1
       /\ UNCHANGED <<temp_850, u_wind_850, v_wind_850, hght_850, lon_var, lat_var>>
       /\ pc = "lat_lon_grid_deltas" /\ pc' # pc =>
              /\ dx' = lat_lon_grid_deltas(lon_var, lat_var).dx
              /\ dy' = lat_lon_grid_deltas(lon_var, lat_var).dy
              /\ adv' = Unset /\ Z_850' = Unset
       /\ pc = "advection" /\ pc' # pc =>
              adv' = UnsmoothedAdvection /\ Z_850' = Unset
       /\ pc = "smooth_hght" /\ pc' # pc =>
              Z_850' = smooth_gaussian(hght_850, n2) /\ adv' = adv
       /\ pc = "smooth_adv" /\ pc' # pc =>
              /\ adv = UnsmoothedAdvection
              /\ adv' = smooth_gaussian(adv, n2)
              /\ Z_850' = Z_850
              /\ cs2' = Unset
       /\ pc = "contour_temp" /\ pc' # pc =>
              /\ Shape(cs2'.val) = Shape(temp_850.val)
              /\ \A i \in 1..Len(cs2'.val) : \A j \in 1..Len(cs2'.val[i]) :
                     RAdd(cs2'.val[i][j], <<5463, 20>>) = temp_850.val[i][j]
       /\ pc \in {"contour_temp", "contourf_adv"} => adv' = adv /\ Z_850' = Z_850
      ]_vars

\* A run that reached the last contour with a field that smoothing changes.
C19_Witness ==
    /\ pc = "contourf_adv"
    /\ temp_850 = NominalTemp
    /\ smooth_gaussian(temp_850, n2) # temp_850
    /\ adv # UnsmoothedAdvection
    /\ Z_850.val # hght_850.val
    /\ cs2 # Unset

(***************************************************************************)
(* C20: what find_time_var returns is a name of var.coordinates, a maximal *)
(* run of characters without whitespace in it, that starts with            *)
(* time_basename, and no name to its left starts with time_basename: the   *)
(* first match is returned and a later one never is.                       *)
(***************************************************************************)
IsNameAt(s, a, b) ==
    /\ a <= b
    /\ \A k \in a..b : s[k] \notin Whitespace
    /\ a = 1 \/ s[a - 1] \in Whitespace
    /\ b = Len(s) \/ s[b + 1] \in Whitespace

HasPrefix(w, p) == Len(p) <= Len(w) /\ \A k \in 1..Len(p) : w[k] = p[k]

C20_ReturnsTheFirstMatch ==
    pc = "return" =>
        \E a \in 1..Len(coordinates) : \E b \in a..Len(coordinates) :
            /\ IsNameAt(coordinates, a, b)
            /\ returned = SubSeq(coordinates, a, b)
            /\ HasPrefix(returned, time_basename)
            /\ \A c \in 1..(a - 1) : \A d \in c..Len(coordinates) :
                   IsNameAt(coordinates, c, d)
                       => ~HasPrefix(SubSeq(coordinates, c, d), time_basename)

\* "x t<TAB>t" searched for "t": one name skipped, then the first of the two
\* matches returned, the loop having taken two of the three names.
C20_Witness ==
    /\ pc = "return"
    /\ coordinates = <<"x", " ", "t", "\t", "t">>
    /\ time_basename = <<"t">>
    /\ coord_names = <<(<<"x">>), (<<"t">>), (<<"t">>)>>
    /\ position = 2
    /\ returned = <<"t">>

(***************************************************************************)
(* C21: find_time_var raises ValueError, with the message 'No time         *)
(* variable found for ' followed by var.name, exactly when no name of      *)
(* var.coordinates starts with time_basename, an empty or all-whitespace   *)
(* var.coordinates included; when some name does it returns, and what it   *)
(* returns is a name, never None.  A call that has neither returned nor    *)
(* raised has a next step.                                                 *)
(***************************************************************************)
SomeNameMatches ==
    \E a \in 1..Len(coordinates) : \E b \in a..Len(coordinates) :
        /\ IsNameAt(coordinates, a, b)
        /\ HasPrefix(SubSeq(coordinates, a, b), time_basename)

C21_RaisesExactlyWhenNothingMatches ==
    /\ err # "none" =>
           /\ err = "ValueError"
           /\ ~SomeNameMatches
           /\ Len(message) = 27 + Len(name)
           /\ SubSeq(message, 1, 23) = <<"N", "o", " ", "t", "i", "m", "e", " ", "v", "a",
                                         "r", "i", "a", "b", "l", "e", " ", "f", "o", "u",
                                         "n", "d", " ">>
           /\ SubSeq(message, 24, 27) = <<"f", "o", "r", " ">>
           /\ SubSeq(message, 28, Len(message)) = name
           /\ returned = <<>> /\ pc # "return"
    /\ pc = "return" =>
           SomeNameMatches /\ err = "none" /\ returned # <<>> /\ message = <<>>
    /\ (pc # "return" /\ err = "none") => ENABLED NextHelper

\* Raised on an empty coordinates string.
C21_Witness ==
    /\ err = "ValueError"
    /\ coordinates = <<>>
    /\ time_basename = <<"t">>
    /\ name = <<"T">>
    /\ Len(message) = 28 /\ message[28] = "T"

(***************************************************************************)
(* C22: the longitude shift takes 360 from every value of lon_2d that is   *)
(* greater than 180 and leaves every other value, 180 included, as it is;  *)
(* a value that was in [0, 360) is in (-180, 180] afterwards.  The shape   *)
(* of lon_2d and the whole of lat_2d are as before the shift.              *)
(***************************************************************************)
C22_GridShift ==
    [][(pc = "gridshift" /\ pc' # pc) =>
          /\ Shape(lon_2d'.val) = Shape(lon_2d.val)
          /\ lat_2d' = lat_2d
          /\ \A i \in 1..Len(lon_2d.val) : \A j \in 1..Len(lon_2d.val[i]) :
                 LET before == lon_2d.val[i][j]
                     after == lon_2d'.val[i][j]
                 IN  /\ before > 180 => after = before - 360
                     /\ before <= 180 => after = before
                     /\ (0 <= before /\ before < 360) => (-180 < after /\ after <= 180)
      ]_vars

\* The GFS longitudes 165, 180, 195 just after the shift: 195 has become -165.
C22_Witness ==
    /\ pc = "lat_lon_grid_deltas"
    /\ lon = GfsLon
    /\ lon[2] = 180 /\ lon_2d.val[1][2] = 180
    /\ lon[3] = 195 /\ lon_2d.val[GridSize][3] = -165
    /\ lat_2d.val[2][1] = lat[2]

====
